---- MODULE Spec2Model ----
(***************************************************************************)
(* Smirkle "try not to laugh" backend: the session-scoped consecutive-     *)
(* frame smirk confirmation of the FastAPI service                         *)
(* (src/backend/app/api/routes.py, src/backend/app/services/               *)
(* deepface_service.py, src/backend/app/schemas.py, src/backend/app/       *)
(* main.py).                                                               *)
(*                                                                         *)
(* Scores are fixed-point: a raw DeepFace percentage is an integer in      *)
(* units of 0.001 percent (30000 = 30.000 %), a normalised probability is  *)
(* an integer in units of 0.0001 (3000 = 0.3000), which is the precision   *)
(* round(value / 100.0, 4) keeps.                                          *)
(*                                                                         *)
(* The repository's other programs are modelled next to it, each with its  *)
(* own variables and its own specification: the serverless functions       *)
(* (src/api), the Flask/SocketIO service (src/src), the desktop games and  *)
(* the YouTube ingestor (src/scripts).                                     *)
(*                                                                         *)
(* Every handler is an `async def` without an await between its first read *)
(* and its last write of _session_state, so on the event loop each request *)
(* is one atomic step.                                                     *)
(***************************************************************************)
EXTENDS Integers, Sequences, FiniteSets, TLC

VARIABLES
    sessionState,   \* routes.py _session_state: session id -> record, or NoRecord
    modelLoaded,    \* DeepFaceService._model_loaded of the singleton service
    resp,           \* the response of the request handled last
    prev,           \* history: summary of the response before resp
    trail,          \* history: per session, trailing evaluated hit frames since creation/reset
    announced,      \* history: per session, responses with a game-over reason since creation/reset
    tasks,          \* the analyze_emotion coroutines of a batch of parallel requests
    service,        \* the DeepFaceService singleton: the thresholds it was constructed with
    sessionStore,   \* src/api/session.py _session_store of the serverless instance
    request,        \* the request the instance handled last
    reply,          \* and what they returned for it
    websocket,      \* routes.py websocket_endpoint: the position of its one connection
    flask,          \* src/src/app.py: the Flask/SocketIO service and its one client
    desktop,        \* src/scripts: the desktop detector and the locals of its run loop
    staging         \* src/scripts/youtube_ingestor.py: "videos" of the staging file

fastapiVars == <<sessionState, modelLoaded, resp, prev, trail, announced, tasks, service,
                 websocket>>
serverlessVars == <<sessionStore, request, reply>>

vars == <<fastapiVars, serverlessVars, flask, desktop, staging>>

---------------------------------------------------------------------------
(* Optional values: None is Python's None, Some(v) a present value.        *)
None == <<>>
Some(v) == <<v>>

---------------------------------------------------------------------------
(* Bounds of the model.                                                    *)
MaxCount == 5        \* the consecutive count is explored up to this value
MaxAnnounce == 2     \* the announcement history saturates here
MaxWasted == 2       \* the count of "WASTED" messages saturates here

(* Program constants.                                                      *)
smirk_threshold == 3000              \* 0.3
consecutive_frames_required == 3
HappinessMax == 10000                \* 1.0, the upper bound of DetectionResponse.happiness

---------------------------------------------------------------------------
(* Session ids, by what uuid.UUID(s) looks at: the number of characters    *)
(* left after stripping "urn:", "uuid:", braces and hyphens, and whether   *)
(* they are all hexadecimal digits.                                        *)
IdA   == [tag |-> "550e8400-e29b-41d4-a716-446655440000", hexlen |-> 32, hex |-> TRUE]
IdB   == [tag |-> "550e8400-e29b-41d4-a716-446655440001", hexlen |-> 32, hex |-> TRUE]
IdBad == [tag |-> "invalid-uuid", hexlen |-> 11, hex |-> FALSE]
NoId  == [tag |-> "", hexlen |-> 0, hex |-> FALSE]
WsSession == [tag |-> "ws-session", hexlen |-> 9, hex |-> FALSE]

SessionIds == {IdA, IdB, IdBad, WsSession}

(* A variant with a slip in it: only an empty id is refused.               *)
IsUUIDNonEmpty(session_id) == session_id.hexlen > 0

(* uuid.UUID(session_id) does not raise ValueError.                        *)
IsUUID(session_id) == session_id.hexlen = 32 /\ session_id.hex

(* Client-supplied request.timestamp values and frame numbers.             *)
Timestamps == {1, 2}

---------------------------------------------------------------------------
(* Frames, by what the scorer makes of them.                               *)
(*   bad_base64 : base64.b64decode raises binascii.Error (a ValueError)    *)
(*   bad_image  : PIL cannot open the bytes, or the model raises           *)
(*   no_face    : DeepFace raises ValueError "Face could not be detected"  *)
(*   face       : a face whose raw "happy" percentage is happy             *)
RawScores == {29994, 29996, 30000, 95000}

Frames(raws) ==
    {[kind |-> k, happy |-> 0] : k \in {"bad_base64", "bad_image", "no_face"}}
        \cup {[kind |-> "face", happy |-> r] : r \in raws}

(* round(value / 100.0, 4): a raw percentage to a probability with four    *)
(* decimals, ties to even.                                                 *)
NormalizeEmotion(value) ==
    LET q == value \div 10
        r == value % 10
    IN  IF r < 5 THEN q
        ELSE IF r > 5 THEN q + 1
        ELSE IF q % 2 = 0 THEN q ELSE q + 1

(* DeepFaceService.__init__: an argument that is None or falsy (0) gives    *)
(* way to the setting.                                                     *)
DeepFaceService(threshold, frames_required) ==
    [smirk_threshold |->
        IF threshold = None \/ threshold = Some(0) THEN smirk_threshold
        ELSE threshold[1],
     consecutive_frames_required |->
        IF frames_required = None \/ frames_required = Some(0)
        THEN consecutive_frames_required
        ELSE frames_required[1]]

(* is_smirk = happiness >= self.smirk_threshold                            *)
IsSmirkStrict(happiness) == happiness > service.smirk_threshold
IsSmirk(happiness) == happiness >= service.smirk_threshold

(* DeepFaceService.analyze_frame: the result dict, or raised = TRUE when   *)
(* the ValueError that is not a no-face error is re-raised.                *)
analyze_frame(frame) ==
    CASE frame.kind = "face" ->
            LET happiness == NormalizeEmotion(frame.happy)
                is_smirk == IsSmirk(happiness)
            IN  [raised |-> FALSE, status |-> "success", face_detected |-> TRUE,
                 happiness |-> Some(happiness), is_smirk |-> is_smirk,
                 smirk_reason |-> IF is_smirk THEN Some("threshold_exceeded") ELSE None,
                 consecutive_smirk_count |-> 0,
                 game_over |-> FALSE, game_over_reason |-> None]
      [] frame.kind = "no_face" ->
            [raised |-> FALSE, status |-> "no_face_detected", face_detected |-> FALSE,
             happiness |-> None, is_smirk |-> FALSE, smirk_reason |-> None,
             consecutive_smirk_count |-> 0,
             game_over |-> FALSE, game_over_reason |-> None]
      [] frame.kind = "bad_image" ->
            [raised |-> FALSE, status |-> "error", face_detected |-> FALSE,
             happiness |-> None, is_smirk |-> FALSE, smirk_reason |-> None,
             consecutive_smirk_count |-> 0,
             game_over |-> FALSE, game_over_reason |-> None]
      [] OTHER ->
            [raised |-> TRUE, status |-> "error", face_detected |-> FALSE,
             happiness |-> None, is_smirk |-> FALSE, smirk_reason |-> None,
             consecutive_smirk_count |-> 0,
             game_over |-> FALSE, game_over_reason |-> None]

---------------------------------------------------------------------------
(* The session store.                                                      *)
NoRecord == [present |-> FALSE]

(* A variant with a slip in it: the creating reference is counted.         *)
InitRecordCounted ==
    [present |-> TRUE, consecutive_smirk_count |-> 1,
     last_detection_time |-> None, smirk_detected_at |-> None]

InitRecord ==
    [present |-> TRUE, consecutive_smirk_count |-> 0,
     last_detection_time |-> None, smirk_detected_at |-> None]

(* A variant with a slip in it: the membership test is missing.            *)
get_session_state_overwrites(store, session_id) ==
    [store EXCEPT ![session_id] = InitRecord]

(* get_session_state: the store after the lookup (the record is created    *)
(* when absent); the caller then works on store[session_id].               *)
get_session_state(store, session_id) ==
    IF ~store[session_id].present
    THEN [store EXCEPT ![session_id] = InitRecord]
    ELSE store

(* Variants of reset_session_state with a slip in them.                    *)
reset_session_state_forgets(store, session_id) == store

reset_session_state_all(store, session_id) ==
    [s \in DOMAIN store |->
        IF store[s].present THEN [store[s] EXCEPT !.consecutive_smirk_count = 0]
        ELSE store[s]]

reset_session_state_creates(store, session_id) ==
    [store EXCEPT ![session_id] =
        IF @.present THEN [@ EXCEPT !.consecutive_smirk_count = 0] ELSE InitRecord]

(* reset_session_state: zeroes the count of an existing record.            *)
reset_session_state(store, session_id) ==
    IF store[session_id].present
    THEN [store EXCEPT ![session_id].consecutive_smirk_count = 0]
    ELSE store

StoredCount(store, session_id) ==
    IF store[session_id].present THEN store[session_id].consecutive_smirk_count ELSE 0

---------------------------------------------------------------------------
(* analyze_emotion, lines 191-208: the session record after one scored     *)
(* frame.                                                                  *)
ThresholdMetStrict(count) == count > consecutive_frames_required
ThresholdMet(count) == count >= consecutive_frames_required

(* A variant with a slip in it: a frame whose timestamp is older than the   *)
(* last one seen is dropped.                                               *)
UpdateSessionInOrder(rec, result, timestamp) ==
    IF rec.last_detection_time # None /\ timestamp < rec.last_detection_time[1]
    THEN rec
    ELSE IF result.status = "success"
    THEN LET count == IF result.is_smirk THEN rec.consecutive_smirk_count + 1 ELSE 0
         IN  [rec EXCEPT !.consecutive_smirk_count = count,
                         !.last_detection_time = Some(timestamp),
                         !.smirk_detected_at =
                             IF ThresholdMet(count) THEN Some(timestamp) ELSE @]
    ELSE [rec EXCEPT !.consecutive_smirk_count = 0]

(* Variants of the update with a slip in them: the count survives a frame  *)
(* that was not scored; a hit sets the count to 1 instead of adding 1.     *)
UpdateSessionKeepsOnFailure(rec, result, timestamp) ==
    IF result.status = "success"
    THEN LET count == IF result.is_smirk THEN rec.consecutive_smirk_count + 1 ELSE 0
         IN  [rec EXCEPT !.consecutive_smirk_count = count,
                         !.last_detection_time = Some(timestamp),
                         !.smirk_detected_at =
                             IF ThresholdMet(count) THEN Some(timestamp) ELSE @]
    ELSE rec

UpdateSessionDecrements(rec, result, timestamp) ==
    IF result.status = "success"
    THEN LET count == IF result.is_smirk THEN rec.consecutive_smirk_count + 1
                      ELSE rec.consecutive_smirk_count - 1
         IN  [rec EXCEPT !.consecutive_smirk_count = count,
                         !.last_detection_time = Some(timestamp),
                         !.smirk_detected_at =
                             IF ThresholdMet(count) THEN Some(timestamp) ELSE @]
    ELSE [rec EXCEPT !.consecutive_smirk_count = 0]

UpdateSessionAssignsOne(rec, result, timestamp) ==
    IF result.status = "success"
    THEN LET count == IF result.is_smirk THEN 1 ELSE 0
         IN  [rec EXCEPT !.consecutive_smirk_count = count,
                         !.last_detection_time = Some(timestamp),
                         !.smirk_detected_at =
                             IF ThresholdMet(count) THEN Some(timestamp) ELSE @]
    ELSE [rec EXCEPT !.consecutive_smirk_count = 0]

UpdateSession(rec, result, timestamp) ==
    IF result.status = "success"
    THEN LET count == IF result.is_smirk THEN rec.consecutive_smirk_count + 1 ELSE 0
         IN  [rec EXCEPT !.consecutive_smirk_count = count,
                         !.last_detection_time = Some(timestamp),
                         !.smirk_detected_at =
                             IF ThresholdMet(count) THEN Some(timestamp) ELSE @]
    ELSE [rec EXCEPT !.consecutive_smirk_count = 0]

(* analyze_emotion, lines 199-204 and 211: the result dict as returned.    *)
AnnotateResult(result, rec) ==
    IF result.status = "success" /\ ThresholdMet(rec.consecutive_smirk_count)
    THEN [result EXCEPT !.is_smirk = TRUE,
                        !.smirk_reason = Some("consecutive_frames"),
                        !.game_over = TRUE,
                        !.game_over_reason = Some("smirk_detected"),
                        !.consecutive_smirk_count = rec.consecutive_smirk_count]
    ELSE [result EXCEPT !.consecutive_smirk_count = rec.consecutive_smirk_count]

(* Building DetectionResponse from the result: the field constraints it   *)
(* can break (happiness: Optional[float], ge=0, le=1).                     *)
ValidDetectionResponse(result) ==
    \/ result.happiness = None
    \/ /\ result.happiness[1] >= 0
       /\ result.happiness[1] <= HappinessMax

---------------------------------------------------------------------------
(* Responses: one record shape for every endpoint; a field an endpoint     *)
(* does not send is None / FALSE / 0.                                      *)
BlankResp ==
    [op |-> "none", sid |-> NoId, code |-> 0, error |-> None,
     status |-> None, happiness |-> None, is_smirk |-> FALSE,
     smirk_reason |-> None, consecutive_smirk_count |-> 0,
     game_over |-> FALSE, game_over_reason |-> None,
     last_detection_time |-> None, smirk_detected_at |-> None]

ErrorResp(op, sid, code, error) ==
    [BlankResp EXCEPT !.op = op, !.sid = sid, !.code = code, !.error = Some(error)]

DetectionResp(sid, result) ==
    [BlankResp EXCEPT !.op = "analyze", !.sid = sid, !.code = 200,
                      !.status = Some(result.status),
                      !.happiness = result.happiness,
                      !.is_smirk = result.is_smirk,
                      !.smirk_reason = result.smirk_reason,
                      !.consecutive_smirk_count = result.consecutive_smirk_count,
                      !.game_over = result.game_over,
                      !.game_over_reason = result.game_over_reason]

(* get_session_status, lines 313-321.                                      *)
StatusResp(sid, rec) ==
    [BlankResp EXCEPT !.op = "status", !.sid = sid, !.code = 200,
                      !.consecutive_smirk_count = rec.consecutive_smirk_count,
                      !.last_detection_time = rec.last_detection_time,
                      !.smirk_detected_at = rec.smirk_detected_at,
                      !.game_over = ThresholdMet(rec.consecutive_smirk_count)]

ResetResp(sid) ==
    [BlankResp EXCEPT !.op = "reset", !.sid = sid, !.code = 200,
                      !.status = Some("reset")]

Summary(r) == [op |-> r.op, sid |-> r.sid, code |-> r.code,
               status |-> r.status, game_over |-> r.game_over]

Min(a, b) == IF a <= b THEN a ELSE b

---------------------------------------------------------------------------
(* The serverless functions (src/api/analyze-emotion.py, src/api/          *)
(* session.py).                                                            *)
(*                                                                         *)
(* A frame string, by what analyze_frame_simple looks at: whether it       *)
(* starts with "data:image", the number of pieces split(",") gives, and    *)
(* whether base64.b64decode accepts the piece that is decoded.             *)
EmptyFrame == [text |-> "", datauri |-> FALSE, parts |-> 1, decodable |-> TRUE]

SimpleFrames ==
    {EmptyFrame,
     [text |-> "dGVzdA==", datauri |-> FALSE, parts |-> 1, decodable |-> TRUE],
     [text |-> "invalid-base64!@#", datauri |-> FALSE, parts |-> 1, decodable |-> FALSE],
     [text |-> "data:image/jpeg;base64,dGVzdA==", datauri |-> TRUE, parts |-> 2,
      decodable |-> TRUE],
     [text |-> "data:image/jpeg;base64,abc", datauri |-> TRUE, parts |-> 2,
      decodable |-> FALSE],
     [text |-> "data:image/jpeg;base64", datauri |-> TRUE, parts |-> 1,
      decodable |-> FALSE]}

(* Python truthiness of a string.                                          *)
TruthyId(session_id) == session_id.tag # ""
TruthyOptional(optional_id) == optional_id # None /\ TruthyId(optional_id[1])

NoReply ==
    [code |-> 0, raised |-> FALSE, status |-> None, error |-> None,
     session_id |-> NoId, consecutive_smirk_count |-> 0, game_over |-> FALSE]

ErrorReply(code, error) ==
    [NoReply EXCEPT !.code = code, !.status = Some("error"), !.error = Some(error)]

(* An exception that leaves the function.                                  *)
Unhandled == [NoReply EXCEPT !.code = 500, !.raised = TRUE]

(* analyze_frame_simple: the dict it returns (code 0: no HTTP status yet), *)
(* or Unhandled for the IndexError of split(",")[1].                       *)
analyze_frame_simple(frame_data, session_id) ==
    IF ~IsUUID(session_id)
    THEN ErrorReply(0, "INVALID_SESSION_ID")
    ELSE IF frame_data.datauri /\ frame_data.parts < 2
    THEN Unhandled
    ELSE IF ~frame_data.decodable
    THEN ErrorReply(0, "INVALID_FRAME")
    ELSE [NoReply EXCEPT !.status = Some("success"), !.session_id = session_id]

(* A variant with a slip in it: the creating reference is counted.         *)
serverless_get_session_state_counted(store, session_id) ==
    IF ~store[session_id].present
    THEN [store EXCEPT ![session_id] = InitRecordCounted]
    ELSE store

(* session.py get_session_state and reset_session_state.                   *)
serverless_get_session_state(store, session_id) ==
    IF ~store[session_id].present
    THEN [store EXCEPT ![session_id] = InitRecord]
    ELSE store

serverless_reset_session_state(store, session_id) ==
    IF store[session_id].present
    THEN [store EXCEPT ![session_id] = InitRecord]
    ELSE store

NoRequest ==
    [endpoint |-> "none", method |-> "GET", query_session_id |-> None,
     query_action |-> None, body |-> None, frame |-> EmptyFrame]

(* JSON bodies: None is a request without a JSON body (get_json returns    *)
(* None or raises), Some(dict) a JSON object; a key is None when absent.   *)
Bodies(frames, ids) ==
    {None} \cup {Some([frame |-> f, session_id |-> i]) :
                    f \in {None} \cup {Some(x) : x \in frames},
                    i \in {None} \cup {Some(x) : x \in ids}}

(* dict.get(key, "")                                                       *)
GetFrame(body) ==
    IF body = None \/ body[1].frame = None THEN EmptyFrame ELSE body[1].frame[1]
GetSessionId(body) ==
    IF body = None \/ body[1].session_id = None THEN NoId ELSE body[1].session_id[1]

ServerlessStart ==
    /\ sessionStore = [s \in SessionIds |-> NoRecord]
    /\ request = NoRequest
    /\ reply = NoReply

(* analyze-emotion.py main                                                 *)
analyze_emotion_main(req) ==
    LET frame == GetFrame(req.body)
        session_id == GetSessionId(req.body)
        result == analyze_frame_simple(frame, session_id)
    IN  /\ request' = req
        /\ reply' = IF frame.text = "" THEN ErrorReply(400, "MISSING_FRAME")
                    ELSE IF ~TruthyId(session_id)
                    THEN ErrorReply(400, "MISSING_SESSION_ID")
                    ELSE IF result.raised THEN result
                    ELSE IF result.status = Some("error")
                    THEN [result EXCEPT !.code = 400]
                    ELSE [result EXCEPT !.code = 200]
        /\ UNCHANGED sessionStore

(* session.py main                                                         *)
session_main(req) ==
    LET reads_body == /\ ~TruthyOptional(req.query_session_id)
                      /\ req.method \in {"POST", "PUT", "DELETE"}
        session_id == IF TruthyOptional(req.query_session_id)
                      THEN req.query_session_id[1]
                      ELSE IF reads_body THEN GetSessionId(req.body)
                      ELSE NoId
        action == IF req.query_action # None /\ req.query_action[1] # ""
                  THEN req.query_action[1]
                  ELSE IF req.method = "DELETE" THEN "reset" ELSE "status"
        store == serverless_get_session_state(sessionStore, session_id)
    IN  /\ request' = req
        /\ IF reads_body /\ req.body = None
           THEN reply' = Unhandled /\ UNCHANGED sessionStore
           ELSE IF ~TruthyId(session_id)
           THEN reply' = ErrorReply(400, "MISSING_SESSION_ID") /\ UNCHANGED sessionStore
           ELSE IF ~IsUUID(session_id)
           THEN reply' = ErrorReply(400, "INVALID_SESSION_ID") /\ UNCHANGED sessionStore
           ELSE IF action = "reset"
           THEN /\ sessionStore' = serverless_reset_session_state(store, session_id)
                /\ reply' = [NoReply EXCEPT !.code = 200, !.status = Some("reset"),
                                            !.session_id = session_id]
           ELSE /\ sessionStore' = store
                /\ reply' = [NoReply EXCEPT
                                !.code = 200, !.session_id = session_id,
                                !.consecutive_smirk_count =
                                    store[session_id].consecutive_smirk_count,
                                !.game_over =
                                    store[session_id].consecutive_smirk_count >= 3]

ServerlessIds == {NoId, IdA, IdBad}

AnalyzeRequests ==
    {[NoRequest EXCEPT !.endpoint = "analyze", !.method = "POST", !.body = b] :
        b \in Bodies(SimpleFrames, ServerlessIds)}

SessionRequests ==
    {[NoRequest EXCEPT !.endpoint = "session", !.method = m,
                       !.query_session_id = q, !.query_action = a, !.body = b] :
        m \in {"GET", "DELETE"},
        q \in {None} \cup {Some(x) : x \in ServerlessIds},
        a \in {None, Some("reset")},
        b \in Bodies({}, {IdA})}

AnalyzeEmotionMain ==
    \E req \in AnalyzeRequests : analyze_emotion_main(req) /\ UNCHANGED <<fastapiVars, flask, desktop, staging>>

SessionMain ==
    \E req \in SessionRequests : session_main(req) /\ UNCHANGED <<fastapiVars, flask, desktop, staging>>

(* The tests call analyze_frame_simple directly.                           *)
CallAnalyzeFrameSimple ==
    \E frame_data \in SimpleFrames, session_id \in {IdA, IdBad} :
        /\ request' = [NoRequest EXCEPT !.endpoint = "analyze_frame_simple",
                                        !.query_session_id = Some(session_id),
                                        !.frame = frame_data]
        /\ reply' = analyze_frame_simple(frame_data, session_id)
        /\ UNCHANGED <<sessionStore, fastapiVars, flask, desktop, staging>>

(* A new instance of the function starts with an empty module-level store. *)
ColdStart ==
    /\ sessionStore' = [s \in SessionIds |-> NoRecord]
    /\ request' = NoRequest
    /\ reply' = NoReply
    /\ UNCHANGED <<fastapiVars, flask, desktop, staging>>

NextServerless ==
    \/ AnalyzeEmotionMain
    \/ SessionMain
    \/ CallAnalyzeFrameSimple
    \/ ColdStart

---------------------------------------------------------------------------
(* The Flask/SocketIO service (src/src/app.py, src/src/services/           *)
(* emotion_detection.py).  Scores are in units of 0.0001.                  *)
FlaskSmirkThreshold == 3000     \* happiness_score >= 0.3
MaxRun == 5                     \* the histories of the connection saturate here

FlaskScores == {0, 2999, 3000, 5000, 7000, 9500}

(* A video frame: whether cv2.imdecode can read it, and the score the      *)
(* model gives it.                                                         *)
VideoFrames ==
    {[decodable |-> FALSE, score |-> 0]}
        \cup {[decodable |-> TRUE, score |-> p] : p \in FlaskScores}

NoResult == [status |-> "none", score |-> None, is_smirk |-> FALSE]

(* process_frame: the result dict; result.get("is_smirk") of an error      *)
(* result is None, which is falsy.  Without a model, model.predict raises  *)
(* and the except clause returns an error result.                          *)
process_frame(frame_data, model) ==
    IF ~frame_data.decodable \/ ~model
    THEN [status |-> "error", score |-> None, is_smirk |-> FALSE]
    ELSE [status |-> "success", score |-> Some(frame_data.score),
          is_smirk |-> frame_data.score >= FlaskSmirkThreshold]

(* model is None until initialize_model has run; smirk_run (history) is    *)
(* the number of trailing frames of the connection with is_smirk, and      *)
(* game_overs (history) the number of game_over events sent on it.         *)
FlaskStart ==
    [model |-> FALSE, connected |-> FALSE, result |-> NoResult,
     emitted |-> <<>>, smirk_run |-> 0, game_overs |-> 0]

initialize_model ==
    /\ ~flask.model
    /\ flask' = [flask EXCEPT !.model = TRUE]
    /\ UNCHANGED <<fastapiVars, serverlessVars, desktop, staging>>

handle_connect ==
    /\ ~flask.connected
    /\ flask' = [flask EXCEPT !.connected = TRUE, !.result = NoResult,
                              !.emitted = <<"connected">>,
                              !.smirk_run = 0, !.game_overs = 0]
    /\ UNCHANGED <<fastapiVars, serverlessVars, desktop, staging>>

handle_disconnect ==
    /\ flask.connected
    /\ flask' = [flask EXCEPT !.connected = FALSE, !.emitted = <<>>]
    /\ UNCHANGED <<fastapiVars, serverlessVars, desktop, staging>>

handle_video_frame(frame_data) ==
    LET result == process_frame(frame_data, flask.model)
    IN  /\ flask.connected
        /\ flask' = [flask EXCEPT
              !.result = result,
              !.emitted = IF result.is_smirk
                          THEN <<"detection_result", "game_over">>
                          ELSE <<"detection_result">>,
              !.smirk_run = IF result.is_smirk THEN Min(@ + 1, MaxRun) ELSE 0,
              !.game_overs = IF result.is_smirk THEN Min(@ + 1, MaxRun) ELSE @]
        /\ UNCHANGED <<fastapiVars, serverlessVars, desktop, staging>>

HandleVideoFrame == \E frame_data \in VideoFrames : handle_video_frame(frame_data)

NextFlask ==
    \/ initialize_model
    \/ handle_connect
    \/ handle_disconnect
    \/ HandleVideoFrame

---------------------------------------------------------------------------
(* The desktop games (src/scripts/facial_expression_detector.py, "full",   *)
(* and src/scripts/smile_detector_lite.py, "lite").  Scores are in units   *)
(* of 0.001.                                                               *)
FullHappinessThreshold == 300       \* CONFIG["happiness_threshold"] = 0.3
LiteHappinessThreshold == 400       \* CONFIG["happiness_threshold"] = 0.4
FullFrameSkip == 2                  \* CONFIG["frame_skip"]
ExpectedSmileArea == 50000          \* face_area / 50000

(* What the camera and the cascades give for one frame: faces found, eyes  *)
(* found in the face, and for the full detector the DeepFace percentages   *)
(* (or its failure), for the lite one the smiles found and the face area.  *)
CameraFrames ==
    {[face |-> f, eyes |-> e, deepface_ok |-> ok, happy |-> h, surprise |-> u,
      smiles |-> n, area |-> a] :
        f \in BOOLEAN, e \in {0, 2}, ok \in BOOLEAN, h \in {10, 30, 95},
        u \in {0, 70}, n \in {0, 1}, a \in {40000, 125000}}

(* FacialExpressionDetector.detect_expression: happy plus 0.3 of surprise, *)
(* clamped from above; (0, False) when DeepFace fails.                     *)
detect_expression(frame) ==
    IF ~frame.deepface_ok
    THEN [score |-> 0, is_happy |-> FALSE]
    ELSE LET happiness == Min(frame.happy * 10 + frame.surprise * 3, 1000)
         IN  [score |-> happiness, is_happy |-> happiness >= FullHappinessThreshold]

(* SmileDetectorLite.calculate_smile_confidence                            *)
calculate_smile_confidence(frame) ==
    IF frame.smiles = 0 THEN 0
    ELSE Min((frame.smiles * 1000 * ExpectedSmileArea)
                 \div (IF frame.area > ExpectedSmileArea THEN frame.area
                       ELSE ExpectedSmileArea),
             1000)

(* The detector after process_frame.  frame_count is kept modulo           *)
(* frame_skip; due says whether detection_interval has passed since the    *)
(* last DeepFace call.                                                     *)
desktop_process_frame(d, frame, due) ==
    IF d.script = "full"
    THEN LET counted == [d EXCEPT !.frame_count = (@ + 1) % FullFrameSkip]
         IN  IF counted.frame_count # 0 THEN counted
             ELSE IF ~frame.face
             THEN [counted EXCEPT !.is_happy = FALSE, !.eyes_open = TRUE]
             ELSE LET seen == [counted EXCEPT !.eyes_open = frame.eyes >= 2]
                      found == detect_expression(frame)
                  IN  IF due
                      THEN [seen EXCEPT !.score = found.score,
                                        !.is_happy = found.is_happy]
                      ELSE seen
    ELSE IF ~frame.face
         THEN [d EXCEPT !.is_happy = FALSE, !.score = 0, !.eyes_open = TRUE]
         ELSE LET smile_score == calculate_smile_confidence(frame)
              IN  [d EXCEPT !.eyes_open = frame.eyes >= 2,
                            !.score = smile_score,
                            !.is_happy = smile_score >= LiteHappinessThreshold]

can_play_video(d) == d.eyes_open /\ ~d.is_happy

check_game_over(d) == d.is_happy /\ d.eyes_open

(* No script is running.  is_happy stands for is_happy / is_smiling and    *)
(* score for happiness_score / smile_score.  History: wasted counts the    *)
(* "WASTED" messages printed since the last 's' that started a game,       *)
(* smiled_after says whether a frame with a smile and open eyes was        *)
(* processed since then while the game was over.                           *)
DesktopOff ==
    [script |-> "none", pc |-> "off", frame_count |-> 0, is_happy |-> FALSE,
     eyes_open |-> TRUE, score |-> 0, game_active |-> FALSE, game_over |-> FALSE,
     wasted |-> 0, smiled_after |-> FALSE]

(* Variants of the game state management with a slip in them: the game     *)
(* stays active after it was lost; losing changes no flag at all.          *)
game_state_management_keeps_active(d) ==
    IF ~d.game_active THEN d
    ELSE IF check_game_over(d)
    THEN IF ~d.game_over
         THEN [d EXCEPT !.game_over = TRUE, !.wasted = Min(@ + 1, MaxWasted)]
         ELSE d
    ELSE IF can_play_video(d) THEN d
    ELSE [d EXCEPT !.game_active = FALSE]

game_state_management_forgets(d) ==
    IF ~d.game_active THEN d
    ELSE IF check_game_over(d)
    THEN IF ~d.game_over
         THEN [d EXCEPT !.wasted = Min(@ + 1, MaxWasted)]
         ELSE d
    ELSE IF can_play_video(d) THEN d
    ELSE [d EXCEPT !.game_active = FALSE]

(* run, "Game state management": the flags after the frame was processed.  *)
game_state_management(d) ==
    IF ~d.game_active THEN d
    ELSE IF check_game_over(d)
    THEN IF ~d.game_over
         THEN [d EXCEPT !.game_over = TRUE, !.game_active = FALSE,
                        !.wasted = Min(@ + 1, MaxWasted)]
         ELSE d
    ELSE IF can_play_video(d) THEN d
    ELSE [d EXCEPT !.game_active = FALSE]

(* main: the detector is constructed and run() begins.                     *)
desktop_main(script) ==
    /\ desktop.pc = "off"
    /\ desktop' = [DesktopOff EXCEPT !.script = script, !.pc = "frame"]
    /\ UNCHANGED <<fastapiVars, serverlessVars, flask, staging>>

(* run, first half of an iteration: read a frame, process it, game state   *)
(* management.                                                             *)
run_frame(frame, due) ==
    LET d == desktop_process_frame(desktop, frame, due)
        seen == [d EXCEPT !.smiled_after = @ \/ (d.game_over /\ check_game_over(d))]
    IN  /\ desktop.pc = "frame"
        /\ desktop' = [game_state_management(seen) EXCEPT !.pc = "key"]
        /\ UNCHANGED <<fastapiVars, serverlessVars, flask, staging>>

(* run, second half: cv2.waitKey and the key handling.                     *)
run_key(key) ==
    /\ desktop.pc = "key"
    /\ desktop' =
          CASE key = "q" -> DesktopOff
            [] key = "r" ->
                 IF desktop.script = "full"
                 THEN [desktop EXCEPT !.pc = "frame", !.score = 0, !.is_happy = FALSE]
                 ELSE [desktop EXCEPT !.pc = "frame"]
            [] key = "s" ->
                 IF ~desktop.game_active /\ ~desktop.game_over
                 THEN [desktop EXCEPT !.pc = "frame", !.game_active = TRUE,
                                      !.game_over = FALSE,
                                      !.wasted = 0, !.smiled_after = FALSE]
                 ELSE IF desktop.game_over
                 THEN [desktop EXCEPT !.pc = "frame", !.game_active = TRUE,
                                      !.game_over = FALSE,
                                      !.wasted = 0, !.smiled_after = FALSE]
                 ELSE [desktop EXCEPT !.pc = "frame", !.game_active = FALSE]
            [] OTHER -> [desktop EXCEPT !.pc = "frame"]
    /\ UNCHANGED <<fastapiVars, serverlessVars, flask, staging>>

DesktopMain == \E script \in {"full", "lite"} : desktop_main(script)

RunFrame == \E frame \in CameraFrames, due \in BOOLEAN : run_frame(frame, due)

RunKey == \E key \in {"none", "q", "r", "s"} : run_key(key)

NextDesktop ==
    \/ DesktopMain
    \/ RunFrame
    \/ RunKey

---------------------------------------------------------------------------
(* The YouTube ingestor (src/scripts/youtube_ingestor.py).  A staging      *)
(* entry is [id, source_id]: id is the n of its "yt_video_00n", source_id  *)
(* the YouTube video id it was mapped from.                                *)
MaxStaging == 4      \* entries the staging file is explored up to
MaxFetched == 2      \* videos one run's searches return and validate

YouTubeVideos == {"dQw4w9WgXcQ", "9bZkp7q19f0", "kJQP7kiw5Fk"}

RECURSIVE SeqsUpTo(_, _)
SeqsUpTo(S, n) ==
    IF n = 0 THEN {<<>>}
    ELSE LET shorter == SeqsUpTo(S, n - 1)
         IN  shorter \cup {Append(q, x) : q \in {r \in shorter : Len(r) = n - 1}, x \in S}

(* _load_existing_ids: the "id" of every entry of the staging file.        *)
_load_existing_ids(videos) == {videos[i].id : i \in DOMAIN videos}

(* _generate_smirkle_id: the first counter from 1 whose id is not in       *)
(* existing_ids; the video_id it is given plays no part.                   *)
_generate_smirkle_id(existing_ids, video_id) ==
    CHOOSE counter \in 1..(Cardinality(existing_ids) + 1) :
        /\ counter \notin existing_ids
        /\ \A c \in 1..(counter - 1) : c \in existing_ids

(* _map_to_smirkle_schema, lines 219 and 228.                              *)
_map_to_smirkle_schema(existing_ids, video_id) ==
    [id |-> _generate_smirkle_id(existing_ids, video_id), source_id |-> video_id]

(* fetch_banger_videos: details is what the searches returned and          *)
(* _preflight_validation let through, in order, over all queries; each     *)
(* mapped video's id joins existing_ids before the next is mapped.         *)
RECURSIVE fetch_banger_videos(_, _)
fetch_banger_videos(existing_ids, details) ==
    IF details = <<>> THEN <<>>
    ELSE LET smirkle_video == _map_to_smirkle_schema(existing_ids, Head(details))
         IN  <<smirkle_video>> \o
                 fetch_banger_videos(existing_ids \cup {smirkle_video.id}, Tail(details))

(* save_to_staging: appends the videos whose "id" the file does not hold   *)
(* (existing_ids is computed once, before the loop).                       *)
save_to_staging(staging_videos, videos) ==
    LET existing_ids == {staging_videos[i].id : i \in DOMAIN staging_videos}
        new_videos == SelectSeq(videos, LAMBDA video : video.id \notin existing_ids)
    IN  staging_videos \o new_videos

(* main(): one run of the script.  Nothing is written when no video was    *)
(* validated or with --dry-run.                                            *)
ingestor_main(details, dry_run) ==
    LET existing_ids == _load_existing_ids(staging)
        videos == fetch_banger_videos(existing_ids, details)
    IN  staging' = IF videos = <<>> \/ dry_run THEN staging
                   ELSE save_to_staging(staging, videos)

IngestorMain ==
    \E details \in SeqsUpTo(YouTubeVideos, MaxFetched), dry_run \in BOOLEAN :
        /\ Len(staging) + Len(details) <= MaxStaging
        /\ ingestor_main(details, dry_run)
        /\ UNCHANGED <<fastapiVars, serverlessVars, flask, desktop>>

NextIngestor == IngestorMain

---------------------------------------------------------------------------
(* The other programs of the repository, before they have done anything.   *)
OthersStart ==
    /\ ServerlessStart
    /\ flask = FlaskStart
    /\ desktop = DesktopOff
    /\ staging = <<>>

(* The FastAPI service after startup.                                      *)
Init ==
    /\ sessionState = [s \in SessionIds |-> NoRecord]
    /\ modelLoaded \in BOOLEAN      \* lifespan: the startup load succeeded or failed
    /\ resp = BlankResp
    /\ prev = Summary(BlankResp)
    /\ trail = [s \in SessionIds |-> 0]
    /\ announced = [s \in SessionIds |-> 0]
    /\ tasks = <<>>
    /\ service = DeepFaceService(None, None)   \* get_deepface_service()
    /\ websocket = "closed"
    /\ OthersStart

(* A variant with a slip in it: the frame is scored whatever the load gave. *)
ModelReadyAnyway(loaded, loadOk) == TRUE

(* analyze_emotion, lines 166-168: the model is loaded, or                 *)
(* init_deepface_service() loads it now.                                   *)
ModelReady(loaded, loadOk) == loaded \/ loadOk

(* POST /analyze-emotion.  loadOk is the outcome of init_deepface_service  *)
(* when the handler has to call it.  request.frame_number is handed to the *)
(* scorer, which does not use it: it is not an input of the model.         *)
analyze_emotion(session_id, frame, timestamp, loadOk) ==
    /\ StoredCount(sessionState, session_id) < MaxCount
    /\ prev' = Summary(resp)
    /\ IF ~IsUUID(session_id)
       THEN /\ resp' = ErrorResp("analyze", session_id, 400, "INVALID_SESSION_ID")
            /\ UNCHANGED <<sessionState, modelLoaded, trail, announced>>
       ELSE IF ~ModelReady(modelLoaded, loadOk)
       THEN /\ resp' = ErrorResp("analyze", session_id, 503, "MODEL_NOT_LOADED")
            /\ modelLoaded' = (modelLoaded \/ loadOk)
            /\ UNCHANGED <<sessionState, trail, announced>>
       ELSE LET result == analyze_frame(frame)
            IN  /\ modelLoaded' = (modelLoaded \/ loadOk)
                /\ IF result.raised
                   THEN /\ resp' = ErrorResp("analyze", session_id, 500, "PROCESSING_ERROR")
                        /\ UNCHANGED <<sessionState, trail, announced>>
                   ELSE LET store == get_session_state(sessionState, session_id)
                            rec == UpdateSession(store[session_id], result, timestamp)
                            out == AnnotateResult(result, rec)
                            ok == ValidDetectionResponse(out)
                            hit == /\ frame.kind = "face"
                                   /\ IsSmirk(NormalizeEmotion(frame.happy))
                        IN  /\ sessionState' = [store EXCEPT ![session_id] = rec]
                            /\ resp' = IF ok THEN DetectionResp(session_id, out)
                                       ELSE ErrorResp("analyze", session_id, 500,
                                                      "PROCESSING_ERROR")
                            /\ trail' = [trail EXCEPT ![session_id] =
                                  IF hit THEN Min(@ + 1, consecutive_frames_required)
                                  ELSE 0]
                            /\ announced' = [announced EXCEPT ![session_id] =
                                  IF ok /\ out.game_over_reason # None
                                  THEN Min(@ + 1, MaxAnnounce) ELSE @]

(* GET /session/{session_id}/status                                        *)
get_session_status(session_id) ==
    /\ prev' = Summary(resp)
    /\ IF ~IsUUID(session_id)
       THEN /\ resp' = ErrorResp("status", session_id, 400, "INVALID_SESSION_ID")
            /\ UNCHANGED <<sessionState, modelLoaded, trail, announced>>
       ELSE LET store == get_session_state(sessionState, session_id)
            IN  /\ sessionState' = store
                /\ resp' = StatusResp(session_id, store[session_id])
                /\ UNCHANGED <<modelLoaded, trail, announced>>

(* DELETE /session/{session_id}/reset                                      *)
reset_session(session_id) ==
    /\ prev' = Summary(resp)
    /\ IF ~IsUUID(session_id)
       THEN /\ resp' = ErrorResp("reset", session_id, 400, "INVALID_SESSION_ID")
            /\ UNCHANGED <<sessionState, modelLoaded, trail, announced>>
       ELSE /\ sessionState' = reset_session_state(sessionState, session_id)
            /\ resp' = ResetResp(session_id)
            /\ trail' = [trail EXCEPT ![session_id] = 0]
            /\ announced' = [announced EXCEPT ![session_id] = 0]
            /\ UNCHANGED modelLoaded

(* POST /api/v1/admin/reload-model                                         *)
reload_model(loadOk) ==
    /\ prev' = Summary(resp)
    /\ modelLoaded' = loadOk
    /\ resp' = IF loadOk
               THEN [BlankResp EXCEPT !.op = "reload", !.code = 200,
                                      !.status = Some("success")]
               ELSE [BlankResp EXCEPT !.op = "reload", !.code = 500,
                                      !.status = Some("error")]
    /\ UNCHANGED <<sessionState, trail, announced>>

(* The requests clients can send, over the session ids, frames and         *)
(* timestamps given.                                                       *)
LoadOutcomes == IF modelLoaded THEN {TRUE} ELSE BOOLEAN

AnalyzeEmotion(ids, frames, stamps) ==
    \E session_id \in ids, frame \in frames, timestamp \in stamps,
       loadOk \in LoadOutcomes :
        /\ analyze_emotion(session_id, frame, timestamp, loadOk)
        /\ UNCHANGED <<tasks, service, websocket, serverlessVars, flask, desktop, staging>>

GetSessionStatus(ids) ==
    \E session_id \in ids : get_session_status(session_id) /\ UNCHANGED <<tasks, service, websocket, serverlessVars, flask, desktop, staging>>

ResetSession(ids) ==
    \E session_id \in ids : reset_session(session_id) /\ UNCHANGED <<tasks, service, websocket, serverlessVars, flask, desktop, staging>>

ReloadModel ==
    \E loadOk \in BOOLEAN : reload_model(loadOk) /\ UNCHANGED <<tasks, service, websocket, serverlessVars, flask, desktop, staging>>

Requests(ids, frames, stamps) ==
    \/ AnalyzeEmotion(ids, frames, stamps)
    \/ GetSessionStatus(ids)
    \/ ResetSession(ids)
    \/ ReloadModel

(* websocket_endpoint (routes.py 364-426), for the one connection of a     *)
(* deployment that mounts it.  A detection_result message is recorded in   *)
(* resp with op "ws" and code 200; a step that sends no detection_result   *)
(* leaves code 0.                                                          *)

(* lines 392-398: the record after one frame.                              *)
WsUpdateSession(rec, result) ==
    IF result.status = "success"
    THEN [rec EXCEPT !.consecutive_smirk_count = IF result.is_smirk THEN @ + 1 ELSE 0]
    ELSE rec

(* line 400: the payload sent.                                             *)
WsAnnotateResult(result, rec) ==
    [result EXCEPT !.consecutive_smirk_count = rec.consecutive_smirk_count]

WsResp(sid, result) == [DetectionResp(sid, result) EXCEPT !.op = "ws"]

WsNoResult(sid, status) ==
    [BlankResp EXCEPT !.op = "ws", !.sid = sid, !.status = status]

(* lines 374-379: accept, and with the model not loaded                    *)
(* `await init_deepface_service()`: the load is attempted, then awaiting   *)
(* the bool it returned raises TypeError outside the try, which ends the   *)
(* connection.                                                             *)
websocket_accept(loadOk) ==
    /\ websocket = "closed"
    /\ IF modelLoaded
       THEN websocket' = "open" /\ UNCHANGED modelLoaded
       ELSE websocket' = "closed" /\ modelLoaded' = loadOk
    /\ UNCHANGED <<sessionState, resp, prev, trail, announced>>

(* lines 383-406: one {"type": "frame"} message; optional_id is None when  *)
(* the message has no session_id.  An exception of the scorer is caught at *)
(* line 414 and the socket is closed.                                      *)
websocket_frame(optional_id, frame) ==
    LET session_id == IF optional_id = None THEN WsSession ELSE optional_id[1]
        result == analyze_frame(frame)
    IN  /\ websocket = "open"
        /\ StoredCount(sessionState, session_id) < MaxCount
        /\ prev' = Summary(resp)
        /\ UNCHANGED <<modelLoaded, announced>>
        /\ IF result.raised
           THEN /\ websocket' = "closed"
                /\ resp' = WsNoResult(session_id, None)
                /\ UNCHANGED <<sessionState, trail>>
           ELSE LET store == get_session_state(sessionState, session_id)
                    rec == WsUpdateSession(store[session_id], result)
                    out == WsAnnotateResult(result, rec)
                IN  /\ sessionState' = [store EXCEPT ![session_id] = rec]
                    /\ resp' = WsResp(session_id, out)
                    /\ trail' = [trail EXCEPT ![session_id] =
                          IF result.status = "success" /\ result.is_smirk
                          THEN Min(@ + 1, consecutive_frames_required)
                          ELSE 0]
                    /\ UNCHANGED websocket

(* lines 408-412: {"type": "ping"} is answered with a pong.                *)
websocket_ping ==
    /\ websocket = "open"
    /\ prev' = Summary(resp)
    /\ resp' = WsNoResult(NoId, Some("pong"))
    /\ UNCHANGED <<sessionState, modelLoaded, trail, announced, websocket>>

(* lines 414-417: receive_json raises when the client goes away.           *)
websocket_disconnect ==
    /\ websocket = "open"
    /\ websocket' = "closed"
    /\ UNCHANGED <<sessionState, modelLoaded, resp, prev, trail, announced>>

WebsocketAccept ==
    \E loadOk \in BOOLEAN :
        /\ websocket_accept(loadOk)
        /\ UNCHANGED <<tasks, service, serverlessVars, flask, desktop, staging>>

WebsocketFrame(ids, frames) ==
    \E optional_id \in ids, frame \in frames :
        /\ websocket_frame(optional_id, frame)
        /\ UNCHANGED <<tasks, service, serverlessVars, flask, desktop, staging>>

WebsocketPing ==
    websocket_ping /\ UNCHANGED <<tasks, service, serverlessVars, flask, desktop, staging>>

WebsocketDisconnect ==
    websocket_disconnect /\ UNCHANGED <<tasks, service, serverlessVars, flask, desktop, staging>>

(* One player (and a malformed id), scores within the scorer's contract.   *)
Next == Requests({IdA, IdBad}, Frames(RawScores), Timestamps)

Spec == Init /\ [][Next]_vars

(* Two players, fewer kinds of frame and one timestamp.                    *)
TwoPlayerFrames ==
    {f \in Frames({29994, 95000}) : f.kind \in {"face", "no_face"}}

NextTwo == Requests({IdA, IdB}, TwoPlayerFrames, {1})

SpecTwo == Init /\ [][NextTwo]_vars

---------------------------------------------------------------------------
(* Parallel analyze requests on one session.  The event loop runs a        *)
(* coroutine until its next await; analyze_emotion has none between its    *)
(* lookup of the record (line 188) and its return (line 216), so the       *)
(* handler cannot be suspended inside the update.                          *)
SuspendsInUpdateYes == TRUE
SuspendsInUpdate == FALSE

Tasks == 1 .. consecutive_frames_required

HitFrames ==
    {f \in Frames(RawScores) :
        f.kind = "face" /\ IsSmirk(NormalizeEmotion(f.happy))}

QueuedTasks ==
    {[pc |-> "queued", session_id |-> IdA, frame |-> f, timestamp |-> ts,
      seen |-> NoRecord, response |-> BlankResp] :
        f \in HitFrames, ts \in Timestamps}

(* The batch is queued on a session at count 0 (just created, or not yet   *)
(* created), the model loaded.                                             *)
InitConc ==
    /\ sessionState \in {[s \in SessionIds |-> NoRecord],
                         [s \in SessionIds |-> IF s = IdA THEN InitRecord ELSE NoRecord]}
    /\ modelLoaded = TRUE
    /\ service = DeepFaceService(None, None)
    /\ websocket = "closed"
    /\ OthersStart
    /\ resp = BlankResp
    /\ prev = Summary(BlankResp)
    /\ trail = [s \in SessionIds |-> 0]
    /\ announced = [s \in SessionIds |-> 0]
    /\ tasks \in [Tasks -> QueuedTasks]

(* The event loop resumes task t and runs it to its next suspension point  *)
(* or to its return.                                                       *)
Step(t) ==
    LET task == tasks[t]
        sid == task.session_id
    IN  /\ task.pc # "done"
        /\ UNCHANGED <<service, websocket, serverlessVars, flask, desktop, staging>>
        /\ IF ~SuspendsInUpdate
           THEN /\ analyze_emotion(sid, task.frame, task.timestamp, TRUE)
                /\ tasks' = [tasks EXCEPT ![t].pc = "done", ![t].response = resp']
           ELSE IF task.pc = "queued"
           THEN LET store == get_session_state(sessionState, sid)
                IN  /\ sessionState' = store
                    /\ tasks' = [tasks EXCEPT ![t].pc = "update",
                                              ![t].seen = store[sid]]
                    /\ UNCHANGED <<modelLoaded, resp, prev, trail, announced>>
           ELSE LET result == analyze_frame(task.frame)
                    rec == UpdateSession(task.seen, result, task.timestamp)
                    out == AnnotateResult(result, rec)
                IN  /\ sessionState' = [sessionState EXCEPT ![sid] = rec]
                    /\ resp' = DetectionResp(sid, out)
                    /\ prev' = Summary(resp)
                    /\ tasks' = [tasks EXCEPT ![t].pc = "done",
                                              ![t].response = DetectionResp(sid, out)]
                    /\ UNCHANGED <<modelLoaded, trail, announced>>

NextConc == \E t \in Tasks : Step(t)

SpecConc == InitConc /\ [][NextConc]_vars

---------------------------------------------------------------------------
(* An upstream model whose "happy" percentage leaves [0, 100]: -0.5 % and  *)
(* 100.5 % next to ordinary scores, every frame with a face.               *)
NoisyFrames == {f \in Frames({0 - 500, 29994, 95000, 100500}) : f.kind = "face"}

NextNoisy == Requests({IdA}, NoisyFrames, {1})

SpecNoisy == Init /\ [][NextNoisy]_vars

(* A service singleton constructed with explicit thresholds               *)
(* (DeepFaceService(smirk_threshold=..., consecutive_frames_required=...)).*)
InitInjected ==
    /\ sessionState = [s \in SessionIds |-> NoRecord]
    /\ modelLoaded \in BOOLEAN
    /\ resp = BlankResp
    /\ prev = Summary(BlankResp)
    /\ trail = [s \in SessionIds |-> 0]
    /\ announced = [s \in SessionIds |-> 0]
    /\ tasks = <<>>
    /\ websocket = "closed"
    /\ OthersStart
    /\ service \in {DeepFaceService(threshold, frames_required) :
                        threshold \in {None, Some(0), Some(9000)},
                        frames_required \in {None, Some(0), Some(2)}}

NextInjected == Requests({IdA}, TwoPlayerFrames, {1})

SpecInjected == InitInjected /\ [][NextInjected]_vars

(* One player over HTTP and over the WebSocket, with and without a         *)
(* session_id in the frame message; over HTTP the player only smirks.      *)
WsFrames == {f \in Frames({95000}) : f.kind # "bad_image"}

NextWebsocket ==
    \/ AnalyzeEmotion({IdA}, {[kind |-> "face", happy |-> 95000]}, {1})
    \/ GetSessionStatus({IdA})
    \/ ResetSession({IdA})
    \/ WebsocketAccept
    \/ WebsocketFrame({Some(IdA), None}, WsFrames)
    \/ WebsocketPing
    \/ WebsocketDisconnect

SpecWebsocket == Init /\ [][NextWebsocket]_vars

(* The serverless functions on their own.                                  *)
SpecServerless == Init /\ [][NextServerless]_vars

(* The Flask/SocketIO service on its own.                                  *)
SpecFlask == Init /\ [][NextFlask]_vars

(* The YouTube ingestor on its own.                                        *)
SpecIngestor == Init /\ [][NextIngestor]_vars

(* The desktop games on their own.                                         *)
SpecDesktop == Init /\ [][NextDesktop]_vars


---------------------------------------------------------------------------
(* Properties of the FastAPI service.  resp is the response to the request *)
(* handled last and the store is the store right after it; prev is the     *)
(* response before that.                                                   *)

Evaluated == resp.op = "analyze" /\ resp.code = 200
Answered == resp.op \in {"analyze", "status"} /\ resp.code = 200
PrevOn(op) == prev.op = op /\ prev.code = 200 /\ prev.sid = resp.sid

\* C1: the response to the K-th of K successive scored hit frames of a session
\* (K = consecutive_frames_required; no miss, no-face frame, error or reset in
\* between) has game_over = true, with smirk_reason "consecutive_frames" and
\* game_over_reason "smirk_detected".
C1_KthHitConfirms ==
    (Evaluated /\ trail[resp.sid] = consecutive_frames_required)
        => /\ resp.game_over
           /\ resp.smirk_reason = Some("consecutive_frames")
           /\ resp.game_over_reason = Some("smirk_detected")

C1_Witness ==
    /\ Evaluated
    /\ trail[resp.sid] = consecutive_frames_required
    /\ resp.consecutive_smirk_count = consecutive_frames_required
    /\ resp.game_over

\* C2: a response (to analyze or to status) reports game_over = true only when
\* the K most recently evaluated frames of the session, all after its creation
\* and its last reset, were hits with a face found.
C2_DebounceSafety ==
    resp.game_over => (Answered /\ trail[resp.sid] = consecutive_frames_required)

C2_Witness ==
    /\ resp.op = "status"
    /\ resp.game_over
    /\ announced[resp.sid] = 1

\* C3: once an analyze response of a session has reported game_over = true,
\* every later analyze response and every status response of that session
\* reports game_over = true, until the session is reset.
C3_GameOverSticky ==
    (Answered /\ announced[resp.sid] >= 1) => resp.game_over

\* C4: between creation (or the last reset) and the next reset, at most one
\* analyze response of a session carries a game-over reason.
C4_ConfirmedOnce == \A s \in SessionIds : announced[s] <= 1

\* C5: a frame without a face leaves the session's count at 0 whatever it was,
\* and the answer to the request that follows it on that session (so the last
\* of hit, no-face, hit) does not report game over.
C5_NoFaceResets ==
    /\ (Evaluated /\ resp.status = Some("no_face_detected"))
           => /\ StoredCount(sessionState, resp.sid) = 0
              /\ resp.consecutive_smirk_count = 0
              /\ ~resp.game_over
    /\ (Answered /\ PrevOn("analyze") /\ prev.status = Some("no_face_detected")
            /\ consecutive_frames_required > 1)
           => /\ resp.consecutive_smirk_count <= 1
              /\ ~resp.game_over

C5_Witness ==
    /\ Evaluated
    /\ resp.status = Some("no_face_detected")
    /\ PrevOn("analyze")
    /\ prev.game_over
    /\ StoredCount(sessionState, resp.sid) = 0

\* C6: a scored hit frame adds exactly 1 to the stored count of its session; a
\* scored miss frame and a frame that was not scored (no face, error) set it
\* to 0.
C6_CountStep ==
    [][(resp'.op = "analyze" /\ resp'.code = 200)
          => IF resp'.status = Some("success") /\ resp'.is_smirk
             THEN StoredCount(sessionState', resp'.sid)
                      = StoredCount(sessionState, resp'.sid) + 1
             ELSE StoredCount(sessionState', resp'.sid) = 0]_vars

C6_Witness ==
    /\ Evaluated
    /\ resp.is_smirk
    /\ PrevOn("analyze")
    /\ prev.status = Some("success")
    /\ StoredCount(sessionState, resp.sid) = 2

\* C7: a scored frame is a smirk exactly when its happiness is >= the
\* threshold: happiness equal to the threshold is reported is_smirk = true and
\* leaves a count >= 1, happiness below it is reported is_smirk = false and
\* leaves the count at 0.
C7_ThresholdInclusive ==
    (Evaluated /\ resp.status = Some("success"))
        => /\ resp.is_smirk <=> resp.happiness[1] >= smirk_threshold
           /\ resp.is_smirk => StoredCount(sessionState, resp.sid) >= 1
           /\ ~resp.is_smirk => StoredCount(sessionState, resp.sid) = 0

C7_Witness ==
    /\ Evaluated
    /\ resp.happiness = Some(smirk_threshold)
    /\ resp.is_smirk
    /\ StoredCount(sessionState, resp.sid) >= 1

\* C8: a status query that directly follows a reset of the same session
\* returns count 0 and game_over = false, also when the session had been
\* brought to game over.
C8_ResetThenStatus ==
    (resp.op = "status" /\ resp.code = 200 /\ PrevOn("reset"))
        => /\ resp.consecutive_smirk_count = 0
           /\ ~resp.game_over

C8_Witness ==
    /\ resp.op = "status"
    /\ PrevOn("reset")
    /\ resp.smirk_detected_at # None
    /\ resp.consecutive_smirk_count = 0
    /\ ~resp.game_over

\* C9: after reset the session's record has count 0, is not terminal, and its
\* confirmation timestamp smirk_detected_at is None.
C9_ResetClearsRecord ==
    (resp.op = "reset" /\ resp.code = 200 /\ sessionState[resp.sid].present)
        => /\ sessionState[resp.sid].consecutive_smirk_count = 0
           /\ sessionState[resp.sid].smirk_detected_at = None

\* C10, as claimed: after a reset the session has a record (created in the
\* initial state when there was none).
C10_ResetCreatesRecord ==
    (resp.op = "reset" /\ resp.code = 200) => sessionState[resp.sid].present

\* C10, amended: reset of a UUID-shaped id always succeeds; for an id without
\* a record it leaves the store as it was (no record is created), and a reset
\* that directly follows a reset of the same id leaves the store as it was.
C10_ResetIdempotent ==
    [][resp'.op = "reset"
          => /\ IsUUID(resp'.sid) => resp'.code = 200
             /\ (resp'.code = 200 /\ ~sessionState[resp'.sid].present)
                    => sessionState' = sessionState
             /\ (resp'.code = 200 /\ resp.op = "reset" /\ resp.code = 200
                    /\ resp.sid = resp'.sid)
                    => sessionState' = sessionState]_vars

C10_Witness ==
    /\ resp.op = "reset"
    /\ PrevOn("reset")
    /\ ~sessionState[resp.sid].present


\* C11, as claimed: a status query leaves the session store exactly as it was,
\* also for an id that has no record yet.
C11_StatusReadOnly ==
    [][resp'.op = "status" => sessionState' = sessionState]_vars

\* C11, amended: a status query never changes an existing record; for a
\* UUID-shaped id without a record it adds the initial record for that id and
\* changes nothing else, and for a malformed id it changes nothing.
C11_StatusKeepsRecords ==
    [][resp'.op = "status"
          => \A s \in SessionIds :
                \/ sessionState'[s] = sessionState[s]
                \/ /\ s = resp'.sid
                   /\ resp'.code = 200
                   /\ ~sessionState[s].present
                   /\ sessionState'[s].present
                   /\ sessionState'[s].consecutive_smirk_count = 0
                   /\ sessionState'[s].last_detection_time = None
                   /\ sessionState'[s].smirk_detected_at = None]_vars

C11_Witness ==
    /\ resp.op = "status"
    /\ resp.code = 200
    /\ PrevOn("analyze")
    /\ resp.consecutive_smirk_count >= 1
    /\ resp.last_detection_time # None

\* C12: the first reference to a UUID-shaped id creates its record: a status
\* query creates it with count 0, no timestamps, and reports exactly that with
\* game_over = false; a scored frame creates it and applies the frame to that
\* initial record.
C12_LazyCreation ==
    [][(resp'.code = 200 /\ resp'.op \in {"analyze", "status"}
            /\ ~sessionState[resp'.sid].present)
          => /\ sessionState'[resp'.sid].present
             /\ sessionState'[resp'.sid].smirk_detected_at = None
             /\ ~resp'.game_over
             /\ resp'.op = "status"
                   => /\ sessionState'[resp'.sid].consecutive_smirk_count = 0
                      /\ sessionState'[resp'.sid].last_detection_time = None
                      /\ resp'.consecutive_smirk_count = 0
                      /\ resp'.last_detection_time = None
                      /\ resp'.smirk_detected_at = None
             /\ resp'.op = "analyze"
                   => sessionState'[resp'.sid].consecutive_smirk_count
                          = IF resp'.is_smirk THEN 1 ELSE 0]_vars

C12_Witness ==
    /\ resp.op = "status"
    /\ resp.code = 200
    /\ prev.op = "none"
    /\ sessionState[resp.sid].present
    /\ resp.consecutive_smirk_count = 0
    /\ ~resp.game_over


\* C13: in every reachable state a session's confirmation timestamp
\* smirk_detected_at is set if and only if status reports game_over = true for
\* it (its count is at or above the required number of frames).
C13_TimestampIffTerminal ==
    \A s \in SessionIds :
        sessionState[s].present
            => ((sessionState[s].smirk_detected_at # None)
                    <=> ThresholdMet(sessionState[s].consecutive_smirk_count))

\* C14: once a session's confirmation timestamp is set, no analyze request
\* changes it.
C14_TimestampWrittenOnce ==
    [][(resp'.op = "analyze" /\ sessionState[resp'.sid].present
            /\ sessionState[resp'.sid].smirk_detected_at # None)
          => sessionState'[resp'.sid].smirk_detected_at
                 = sessionState[resp'.sid].smirk_detected_at]_vars

\* C15: a request on one session leaves the record of every other session, and
\* what a status query would report for it, as they were.
C15_SessionIsolation ==
    [][\A s \in SessionIds :
          (s # resp'.sid /\ IsUUID(s))
              => /\ sessionState'[s] = sessionState[s]
                 /\ StatusResp(s, get_session_state(sessionState', s)[s])
                        = StatusResp(s, get_session_state(sessionState, s)[s])]_vars

C15_Witness ==
    /\ resp.op = "reset"
    /\ resp.code = 200
    /\ resp.sid = IdA
    /\ PrevOn("analyze")
    /\ prev.game_over
    /\ StoredCount(sessionState, IdA) = 0
    /\ StoredCount(sessionState, IdB) = 2

AllDone == \A t \in DOMAIN tasks : tasks[t].pc = "done"
Confirming == {t \in DOMAIN tasks : tasks[t].response.game_over}
Returned == {t \in DOMAIN tasks : tasks[t].pc = "done"}

\* C16: of consecutive_frames_required parallel analyze requests with hit
\* frames on one session starting at count 0, at no point has more than one
\* response reported game_over, and once all have returned exactly one has,
\* in whatever order the event loop ran them.
C16_ExactlyOneConfirmation ==
    tasks # <<>>
        => /\ Cardinality(Confirming) <= 1
           /\ AllDone => Cardinality(Confirming) = 1

C16_Witness ==
    /\ tasks # <<>>
    /\ AllDone
    /\ tasks[1].response.game_over
    /\ tasks[1].response.consecutive_smirk_count = consecutive_frames_required

\* C17: no update of a batch of parallel hit frames is lost: the stored count
\* is the number of requests that have returned, the returned requests
\* reported the counts 1, 2, ... in some order, and after all n the count is n.
C17_NoLostUpdate ==
    tasks # <<>>
        => /\ StoredCount(sessionState, IdA) = Cardinality(Returned)
           /\ {tasks[t].response.consecutive_smirk_count : t \in Returned}
                  = 1 .. Cardinality(Returned)

C17_Witness ==
    /\ tasks # <<>>
    /\ AllDone
    /\ StoredCount(sessionState, IdA) = Cardinality(DOMAIN tasks)
    /\ tasks[1].response.consecutive_smirk_count = 2

\* C18: analyze, status and reset answer the session id "invalid-uuid", which
\* is not UUID-shaped, with 400 INVALID_SESSION_ID and leave the store (and
\* the model) as they were; no record ever exists under such an id.
C18_InvalidIdRejected ==
    [][(resp'.op \in {"analyze", "status", "reset"} /\ resp'.sid = IdBad)
          => /\ resp'.code = 400
             /\ resp'.error = Some("INVALID_SESSION_ID")
             /\ sessionState' = sessionState
             /\ modelLoaded' = modelLoaded
             /\ ~sessionState'[resp'.sid].present]_vars

C18_Witness ==
    /\ resp.op = "analyze"
    /\ resp.code = 400
    /\ resp.sid = IdBad
    /\ resp.error = Some("INVALID_SESSION_ID")
    /\ ~sessionState[resp.sid].present
    /\ \E s \in SessionIds : StoredCount(sessionState, s) >= 1

\* C19: after an analyze request whose frame could not be scored (no face,
\* undecodable image, model error, any exception while scoring) the session's
\* count is 0.
C19_ScorerFailureResets ==
    (resp.op = "analyze"
        /\ \/ resp.code = 500
           \/ resp.code = 200 /\ resp.status # Some("success"))
        => StoredCount(sessionState, resp.sid) = 0

\* C20: a frame that could not be scored is answered with a normal response
\* (status no_face_detected or error, is_smirk and game_over false), never
\* with HTTP 500.
C20_FailureIsNonFatal ==
    resp.op = "analyze"
        => /\ resp.code # 500
           /\ (resp.code = 200 /\ resp.status # Some("success"))
                  => /\ resp.status \in {Some("no_face_detected"), Some("error")}
                     /\ ~resp.is_smirk
                     /\ ~resp.game_over


\* C21: a frame with a face is always answered with a normal decision whose
\* happiness lies in [0, 1], also when the upstream score is outside that
\* range (the score is clamped, the frame is not rejected).
C21_OutOfRangeClamped ==
    (resp.op = "analyze"
        /\ resp.error \notin {Some("INVALID_SESSION_ID"), Some("MODEL_NOT_LOADED")})
        => /\ resp.code = 200
           /\ resp.happiness # None
           /\ resp.happiness[1] >= 0
           /\ resp.happiness[1] <= HappinessMax

\* C22: game over is decided, by analyze and by status, against the number of
\* consecutive frames the detection service was constructed with.
C22_InjectedRequirement ==
    Answered
        => (resp.game_over
                <=> StoredCount(sessionState, resp.sid)
                        >= service.consecutive_frames_required)

\* C23: the count and the decision of a scored frame are a function of the
\* stored count, the frame's happiness and whether a face was found; the
\* client timestamp, in or out of order or repeated, has no part in it.
C23_DecisionIgnoresOrder ==
    [][(resp'.op = "analyze" /\ resp'.code = 200)
          => LET sid == resp'.sid
                 old == StoredCount(sessionState, sid)
                 hit == /\ resp'.status = Some("success")
                        /\ resp'.happiness[1] >= smirk_threshold
                 new == IF hit THEN old + 1 ELSE 0
             IN  /\ StoredCount(sessionState', sid) = new
                 /\ resp'.consecutive_smirk_count = new
                 /\ resp'.is_smirk = hit
                 /\ resp'.game_over = (hit /\ new >= consecutive_frames_required)]_vars

C23_Witness ==
    /\ Evaluated
    /\ resp.is_smirk
    /\ StoredCount(sessionState, resp.sid) = 1
    /\ sessionState[resp.sid].last_detection_time = Some(1)
    /\ sessionState[resp.sid].smirk_detected_at = Some(2)


\* C26: a status query for a UUID-shaped session id, seen before or not, is
\* answered 200 with the session id and status "active".
C26_StatusActive ==
    (resp.op = "status" /\ IsUUID(resp.sid))
        => /\ resp.code = 200
           /\ resp.status = Some("active")

\* C27: every stored consecutive count, and every count reported in a
\* response, is an integer >= 0.
C27_CountNonNegative ==
    /\ \A s \in SessionIds :
          sessionState[s].present => sessionState[s].consecutive_smirk_count \in Nat
    /\ resp.consecutive_smirk_count \in Nat

C27_Witness ==
    /\ Evaluated
    /\ resp.sid = IdA
    /\ resp.status = Some("success")
    /\ ~resp.is_smirk
    /\ PrevOn("analyze")
    /\ ~prev.game_over
    /\ StoredCount(sessionState, IdA) = 0
    /\ StoredCount(sessionState, IdB) = 1

\* C28: a frame that was not scored (no face, error) leaves the session's
\* confirmation timestamp, its last_detection_time and whether it is terminal
\* (status would report game_over) as they were.
C28_FailureTouchesCountOnly ==
    [][(resp'.op = "analyze" /\ resp'.code = 200 /\ resp'.status # Some("success"))
          => LET before == get_session_state(sessionState, resp'.sid)[resp'.sid]
                 after == sessionState'[resp'.sid]
             IN  /\ after.smirk_detected_at = before.smirk_detected_at
                 /\ after.last_detection_time = before.last_detection_time
                 /\ ThresholdMet(after.consecutive_smirk_count)
                        = ThresholdMet(before.consecutive_smirk_count)]_vars


\* C24: a serverless request that lacks a required field is answered 400 with
\* MISSING_FRAME (analyze: frame empty or absent), MISSING_SESSION_ID
\* (analyze: frame present, session_id empty or absent; session: no
\* session_id in the query or the body), and the session store stays as it
\* was.
C24_MissingField ==
    [][/\ (request'.endpoint = "analyze" /\ GetFrame(request'.body).text = "")
             => /\ reply'.code = 400
                /\ reply'.error = Some("MISSING_FRAME")
                /\ sessionStore' = sessionStore
       /\ (request'.endpoint = "analyze" /\ GetFrame(request'.body).text # ""
               /\ ~TruthyId(GetSessionId(request'.body)))
             => /\ reply'.code = 400
                /\ reply'.error = Some("MISSING_SESSION_ID")
                /\ sessionStore' = sessionStore
       /\ (request'.endpoint = "session"
               /\ ~TruthyOptional(request'.query_session_id)
               /\ ~TruthyId(GetSessionId(request'.body)))
             => /\ reply'.code = 400
                /\ reply'.error = Some("MISSING_SESSION_ID")
                /\ sessionStore' = sessionStore]_vars

\* C25: analyze_frame_simple returns status "success" exactly when the
\* session id is UUID-shaped and the frame is decodable base64; otherwise it
\* returns status "error", with INVALID_SESSION_ID for a session id that is
\* not UUID-shaped whatever the frame is.
C25_SimpleAnalysis ==
    request.endpoint = "analyze_frame_simple"
        => LET session_id == request.query_session_id[1]
               decodable == /\ request.frame.decodable
                            /\ request.frame.datauri => request.frame.parts >= 2
           IN  /\ ~reply.raised
               /\ reply.status \in {Some("success"), Some("error")}
               /\ reply.status = Some("success") <=> (IsUUID(session_id) /\ decodable)
               /\ ~IsUUID(session_id) => reply.error = Some("INVALID_SESSION_ID")


GameOverEmitted == \E i \in DOMAIN flask.emitted : flask.emitted[i] = "game_over"

\* C29: the Flask/SocketIO service sends game_over only after more than one
\* consecutive smirk frame: a smirk frame that follows a frame without a
\* smirk does not by itself produce the event.
C29_FlaskDebounced == GameOverEmitted => flask.smirk_run > 1


\* C30: in the desktop game loops, when the game is active and the detector
\* state after processing the frame says the player is smiling, that
\* iteration ends the game (game_over becomes true), whatever the eyes-open
\* state is.
C30_SmileEndsGame ==
    [][(desktop.pc = "frame" /\ desktop.game_active /\ desktop'.is_happy)
          => desktop'.game_over]_vars


\* C31: after any sequence of ingestion runs (load the ids of the staging
\* file, fetch, save_to_staging) the staging file never holds two entries for
\* the same YouTube source video.
C31_NoDuplicateSource ==
    \A i, j \in DOMAIN staging :
        staging[i].source_id = staging[j].source_id => i = j


\* C32: the WebSocket frame path and the HTTP analyze path implement the same
\* session state machine: from the same record, a frame of any outcome
\* (success-hit, success-miss, no-face, error) leaves the same count,
\* last_detection_time and smirk_detected_at in the record and the same
\* consecutive_smirk_count and game_over in the response.
C32_SameStateMachine ==
    \A session_id \in {IdA}, frame \in Frames({29994, 95000}), timestamp \in Timestamps :
        LET result == analyze_frame(frame)
            rec == get_session_state(sessionState, session_id)[session_id]
            http == UpdateSession(rec, result, timestamp)
            ws == WsUpdateSession(rec, result)
            httpOut == AnnotateResult(result, http)
            wsOut == WsAnnotateResult(result, ws)
        IN  ~result.raised
                => /\ ws = http
                   /\ wsOut.consecutive_smirk_count = httpOut.consecutive_smirk_count
                   /\ wsOut.game_over = httpOut.game_over

\* C34: every key of the FastAPI session store is a UUID-shaped id, whichever
\* path created the record (HTTP analyze, status, reset, WebSocket frame
\* messages with or without a session_id).
C34_KeysAreUUIDs ==
    \A session_id \in SessionIds :
        sessionState[session_id].present => IsUUID(session_id)

\* C35: the game_over of a status response equals the game_over of the
\* response to the frame of that session processed last, over HTTP or over
\* the WebSocket: a status request that follows a frame response reports the
\* same game_over.
C35_StatusAgreesWithFrame ==
    [][(/\ resp.op \in {"analyze", "ws"}
        /\ resp.code = 200
        /\ resp'.op = "status"
        /\ resp'.code = 200
        /\ resp'.sid = resp.sid)
          => resp'.game_over = resp.game_over]_vars


\* C33: an analyze request that ends in an error response (400
\* INVALID_SESSION_ID, 503 MODEL_NOT_LOADED, 500 PROCESSING_ERROR) leaves the
\* session store exactly as it was: no count changed, no timestamp written,
\* no record created.
C33_ErrorLeavesStore ==
    [][(resp'.op = "analyze" /\ resp'.code \in {400, 500, 503})
          => sessionState' = sessionState]_vars

\* C36: the serverless variant never advances a streak: every record of its
\* store has consecutive_smirk_count = 0, and no reply (analyze or status)
\* carries a count other than 0 or game_over = true.
C36_ServerlessNeverCounts ==
    /\ \A session_id \in SessionIds :
          sessionStore[session_id].present
              => sessionStore[session_id].consecutive_smirk_count = 0
    /\ reply.consecutive_smirk_count = 0
    /\ ~reply.game_over

C36_Witness ==
    /\ request.endpoint = "session"
    /\ reply.code = 200
    /\ reply.status = None
    /\ reply.session_id = IdA
    /\ sessionStore[IdA].present

\* C37: in both desktop run loops, whatever the frames and the keys pressed
\* ('s', 'r', 'q', none), game_active and game_over are never both true, at
\* the end of an iteration or inside it.
C37_ActiveExcludesOver ==
    desktop.script # "none" => ~(desktop.game_active /\ desktop.game_over)

C37_Witness ==
    /\ desktop.script = "lite"
    /\ desktop.pc = "frame"
    /\ desktop.game_over
    /\ ~desktop.game_active
    /\ desktop.wasted = 1

\* C38: in both desktop run loops "WASTED" is printed at most once between
\* two presses of 's' that start a game, also when the player keeps smiling
\* after the game is over.
C38_WastedOnce == desktop.wasted <= 1

C38_Witness ==
    /\ desktop.wasted = 1
    /\ desktop.smiled_after
    /\ desktop.game_over

\* C39: POST /analyze-emotion scores no frame and touches no session state
\* while the model is not loaded: with the model unloaded it first attempts
\* a load and goes on only when the load succeeded, otherwise it answers 503
\* MODEL_NOT_LOADED and the store stays as it was.
C39_NoScoringUnloaded ==
    [][resp'.op = "analyze"
          => /\ (\/ resp'.code = 200
                 \/ resp'.error = Some("PROCESSING_ERROR")
                 \/ sessionState' # sessionState) => modelLoaded'
             /\ (IsUUID(resp'.sid) /\ ~modelLoaded /\ ~modelLoaded')
                   => /\ resp'.code = 503
                      /\ resp'.error = Some("MODEL_NOT_LOADED")
                      /\ sessionState' = sessionState]_vars

C39_Witness ==
    /\ resp.op = "analyze"
    /\ resp.code = 503
    /\ resp.error = Some("MODEL_NOT_LOADED")
    /\ ~modelLoaded
    /\ StoredCount(sessionState, IdA) = 2

====
